---- MODULE Spec2Model ----
(***************************************************************************)
(* Model of SnakeGame (src/main.py): the length-budget trail, the food     *)
(* and self collision tests and the Playing / GameOver state machine.      *)
(*                                                                         *)
(* Points are pairs <<x, y>> of integers.  The floats of the program (the  *)
(* math.hypot results, the entries of lengths and current_length) are      *)
(* binary floating point numbers with a significand of Mantissa bits,      *)
(* written as integers in units of 1/Scale pixel; every float operation    *)
(* rounds its exact result to the nearest such number, ties to even.       *)
(* allowed_length is an int, in pixels.                                    *)
(***************************************************************************)
EXTENDS Integers, Sequences, FiniteSets

VARIABLES points, lengths, current_length, allowed_length, previous_head,
          score, game_over, food_width, food_height, food_location, last,
          ticks, food_img, main_pc

vars == <<points, lengths, current_length, allowed_length, previous_head,
          score, game_over, food_width, food_height, food_location, last,
          ticks, food_img, main_pc>>

(* ---------------------------- GameConfig ------------------------------ *)
WINDOW_WIDTH == 1280
WINDOW_HEIGHT == 720
INITIAL_SNAKE_LENGTH == 150
LENGTH_INCREMENT == 50
padding == 100

(* ------------------------------ bounds -------------------------------- *)
\* bits in the significand of a float
Mantissa == 14
\* update is not called once the trail holds MaxPoints points
MaxPoints == 5
\* update is called at most MaxTicks times in one game (ticks counts them)
MaxTicks == 7
\* update is not called once the score has reached MaxScore
MaxScore == 2
\* largest food image side probed by FoodSpec
MaxFoodDim == 7
\* largest head offset from the food probed by FoodSpec
MaxOffset == 4

\* head positions the hand tracker delivers
HeadPositions ==
    { <<100, 100>>, <<101, 100>>, <<100, 103>>, <<101, 101>>,
      <<251, 100>> }

\* candidate outcomes of the random source, before the range of randint
RandomXs == {99, 100, 1180, 1181}
RandomYs == {99, 100, 621}

\* <<height, width>> of the food image (food_img.shape[:2])
FoodImages == { <<4, 5>> }

(* ------------------------------ helpers ------------------------------- *)
abs(n) == IF n < 0 THEN -n ELSE n

\* the unit of a float: the spacing of the floats of [1, 2)
Scale == 2 ^ (Mantissa - 1)

RECURSIVE Isqrt(_)
\* floor of the square root
Isqrt(n) ==
    IF n < 2 THEN n
    ELSE LET s == 2 * Isqrt(n \div 4)
         IN  IF (s + 1) * (s + 1) <= n THEN s + 1 ELSE s

RECURSIVE BitLen(_)
\* number of bits of n >= 0
BitLen(n) == IF n = 0 THEN 0 ELSE 1 + BitLen(n \div 2)

\* n >= 0 rounded to the nearest multiple of 2^k, ties to the even one
RoundTo(n, k) ==
    LET q    == n \div (2 ^ k)
        r    == n % (2 ^ k)
        half == 2 ^ (k - 1)
    IN  IF r > half \/ (r = half /\ q % 2 = 1) THEN (q + 1) * (2 ^ k)
        ELSE q * (2 ^ k)

\* the float nearest to the exact value v
fl(v) ==
    LET k == BitLen(abs(v)) - Mantissa
    IN  IF k <= 0 THEN v
        ELSE IF v < 0 THEN -RoundTo(-v, k) ELSE RoundTo(v, k)

\* float addition (+=) and subtraction (-=)
fadd(a, b) == fl(a + b)
fsub(a, b) == fl(a - b)

\* math.hypot(dx, dy): the float nearest to the square root
hypot(dx, dy) ==
    LET n == dx * dx + dy * dy
        \* the root lies in [2^j, 2^(j+1)) and keeps s fraction bits
        j == (BitLen(n) - 1) \div 2
        s == Mantissa - 1 - j
        m == n * (4 ^ s)
        r == Isqrt(m)
    IN  IF n = 0 THEN 0
        ELSE (IF m - r * r > r THEN r + 1 ELSE r) * (2 ^ j)

\* random.randint(a, b): any integer of a..b (of the sampled candidates)
randint(candidates, a, b) == { n \in candidates : a <= n /\ n <= b }

\* a spawner whose upper limits forget the padding
_generate_food_location_unpadded ==
    { <<x, y>> : x \in randint(RandomXs, padding, WINDOW_WIDTH),
                 y \in randint(RandomYs, padding, WINDOW_HEIGHT) }

(* ----------------------- _generate_food_location ----------------------- *)
_generate_food_location ==
    { <<x, y>> : x \in randint(RandomXs, padding, WINDOW_WIDTH - padding),
                 y \in randint(RandomYs, padding, WINDOW_HEIGHT - padding) }

\* an overlap test that takes the half extent itself as inside
_check_food_collision_inclusive(head_pos, food, fw, fh) ==
    /\ abs(head_pos[1] - food[1]) <= fw \div 2
    /\ abs(head_pos[2] - food[2]) <= fh \div 2

(* ------------------------ _check_food_collision ------------------------ *)
_check_food_collision(head_pos, food, fw, fh) ==
    /\ abs(head_pos[1] - food[1]) < fw \div 2
    /\ abs(head_pos[2] - food[2]) < fh \div 2

(* -------------------------- cv2.pointPolygonTest ----------------------- *)
\* a/b < c/d for a, c >= 0 and b, d > 0 (the comparison
\* dist_num*min_dist_denom < min_dist_num*dist_denom, without the products)
RECURSIVE FracLess(_, _, _, _)
FracLess(a, b, c, d) ==
    LET qa == a \div b
        qc == c \div d
        ra == a % b
        rc == c % d
    IN  IF qa # qc THEN qa < qc
        ELSE IF rc = 0 THEN FALSE
        ELSE IF ra = 0 THEN TRUE
        ELSE FracLess(d, rc, b, ra)

\* squared distance dist_num/dist_denom from pt to the edge v0 -> v
EdgeDist(v0, v, pt) ==
    LET dx  == v[1] - v0[1]
        dy  == v[2] - v0[2]
        dx1 == pt[1] - v0[1]
        dy1 == pt[2] - v0[2]
        dx2 == pt[1] - v[1]
        dy2 == pt[2] - v[2]
    IN  IF dx1 * dx + dy1 * dy <= 0
           THEN [num |-> dx1 * dx1 + dy1 * dy1, denom |-> 1]
        ELSE IF dx2 * dx + dy2 * dy >= 0
           THEN [num |-> dx2 * dx2 + dy2 * dy2, denom |-> 1]
        ELSE [num |-> (dy1 * dx - dx1 * dy) * (dy1 * dx - dx1 * dy),
              denom |-> dx * dx + dy * dy]

\* 1 when the edge v0 -> v is crossed by the ray from pt, else 0
EdgeCrossing(v0, v, pt) ==
    LET dx  == v[1] - v0[1]
        dy  == v[2] - v0[2]
        dx1 == pt[1] - v0[1]
        dy1 == pt[2] - v0[2]
        c   == dy1 * dx - dx1 * dy
    IN  IF \/ (v0[2] <= pt[2] /\ v[2] <= pt[2])
           \/ (v0[2] > pt[2] /\ v[2] > pt[2])
           \/ (v0[1] < pt[1] /\ v[1] < pt[1])
           THEN 0
        ELSE IF (IF dy < 0 THEN -c ELSE c) > 0 THEN 1 ELSE 0

\* the loop over the edges; min.inf stands for the initial FLT_MAX
RECURSIVE PolygonLoop(_, _, _, _, _, _)
PolygonLoop(contour, pt, i, v0, min, counter) ==
    IF i > Len(contour) THEN [min |-> min, counter |-> counter]
    ELSE LET v    == contour[i]
             d    == EdgeDist(v0, v, pt)
             less == min.inf \/ FracLess(d.num, d.denom, min.num, min.denom)
             m    == IF less
                        THEN [inf |-> FALSE, num |-> d.num, denom |-> d.denom]
                        ELSE min
         IN  IF less /\ d.num = 0
                THEN [min |-> m, counter |-> counter]
                ELSE PolygonLoop(contour, pt, i + 1, v, m,
                                 counter + EdgeCrossing(v0, v, pt))

\* cv2.pointPolygonTest(contour, pt, True): the signed distance
\* (neg ? -1 : 1) * sqrt(num/denom); inf is the -DBL_MAX of an empty contour
pointPolygonTest(contour, pt) ==
    IF Len(contour) = 0
       THEN [inf |-> TRUE, num |-> 0, denom |-> 1, neg |-> TRUE]
    ELSE LET r == PolygonLoop(contour, pt, 1, contour[Len(contour)],
                              [inf |-> TRUE, num |-> 0, denom |-> 1], 0)
         IN  [inf |-> FALSE, num |-> r.min.num, denom |-> r.min.denom,
              neg |-> (r.counter % 2 = 0)]

\* -1 < distance: a band open at -1
GeMinusOne_strict(d) == ~d.neg \/ (~d.inf /\ d.num < d.denom)

\* -1 <= distance
GeMinusOne(d) == ~d.neg \/ (~d.inf /\ d.num <= d.denom)
\* distance <= 1
LeOne(d) == d.neg \/ (~d.inf /\ d.num <= d.denom)

\* a test against the whole trail, the two newest points included
_check_self_collision_no_exclusion(pts, head_pos) ==
    IF Len(pts) < 1 THEN FALSE
    ELSE LET distance == pointPolygonTest(pts, head_pos)
         IN  GeMinusOne(distance) /\ LeOne(distance)

(* ------------------------ _check_self_collision ------------------------ *)
_check_self_collision(pts, head_pos) ==
    IF Len(pts) < 3 THEN FALSE
    ELSE LET distance == pointPolygonTest(SubSeq(pts, 1, Len(pts) - 2),
                                          head_pos)
         IN  GeMinusOne(distance) /\ LeOne(distance)

(* ------------------------- _update_snake_length ------------------------ *)
\* an eviction that pops at most once (an if in place of the while)
Evict_once(t, allowed) ==
    IF t.current_length > allowed * Scale /\ t.lengths # <<>>
       THEN [points         |-> Tail(t.points),
             lengths        |-> Tail(t.lengths),
             current_length |-> fsub(t.current_length, Head(t.lengths))]
       ELSE t

\* an eviction that forgets points.pop(0)
RECURSIVE Evict_lengths_only(_, _)
Evict_lengths_only(t, allowed) ==
    IF t.current_length > allowed * Scale /\ t.lengths # <<>>
       THEN Evict_lengths_only(
                [points         |-> t.points,
                 lengths        |-> Tail(t.lengths),
                 current_length |-> fsub(t.current_length, Head(t.lengths))],
                allowed)
       ELSE t

\* lines 78-80: pop from the front while over the budget
RECURSIVE Evict(_, _)
Evict(t, allowed) ==
    IF t.current_length > allowed * Scale /\ t.lengths # <<>>
       THEN Evict([points         |-> Tail(t.points),
                   lengths        |-> Tail(t.lengths),
                   current_length |-> fsub(t.current_length, Head(t.lengths))],
                  allowed)
       ELSE t

_update_snake_length(pts, lens, cl, allowed, prev, new_point) ==
    LET dx       == new_point[1] - prev[1]
        dy       == new_point[2] - prev[2]
        distance == hypot(dx, dy)
    IN  Evict([points         |-> Append(pts, new_point),
               lengths        |-> Append(lens, distance),
               current_length |-> fadd(cl, distance)],
              allowed)

(* ------------------------------- update -------------------------------- *)
\* the two tests in the other order
update_branch_self_first(pts, head_pos, food, fw, fh) ==
    IF _check_self_collision(pts, head_pos) THEN "over"
    ELSE IF _check_food_collision(head_pos, food, fw, fh) THEN "food"
    ELSE "none"

\* lines 102-108: which branch the tick takes
update_branch(pts, head_pos, food, fw, fh) ==
    IF _check_food_collision(head_pos, food, fw, fh) THEN "food"
    ELSE IF _check_self_collision(pts, head_pos) THEN "over"
    ELSE "none"

\* what a call leaves for the observer: the operation, its argument and
\* the values the call started from
Call(op, head_pos, hit, spawned, evicted) ==
    [op |-> op, head |-> head_pos, hit |-> hit, spawned |-> spawned,
     evicted |-> evicted, was_over |-> game_over, food |-> food_location,
     score |-> score, allowed |-> allowed_length, prev |-> previous_head]

\* growth by the wrong configuration field
grow_initial(allowed) == allowed + INITIAL_SNAKE_LENGTH

\* line 103: the budget after a food hit
grow(allowed) == allowed + LENGTH_INCREMENT

\* a respawn on every tick
respawn_every_tick(b, food) == _generate_food_location

\* lines 102-105: the food locations the tick can end with
respawn(b, food) == IF b = "food" THEN _generate_food_location ELSE {food}

\* lines 95-97: a call made in GameOver only draws
update_over(head_pos) ==
    /\ last' = Call("update", head_pos, FALSE, FALSE, 0)
    /\ UNCHANGED <<points, lengths, current_length, allowed_length,
                   previous_head, score, game_over, food_width,
                   food_height, food_location, ticks, food_img, main_pc>>

\* lines 99-124: a call made while Playing
update_playing(head_pos) ==
    /\ Len(points) < MaxPoints
    /\ score < MaxScore
    /\ ticks < MaxTicks
    /\ ticks' = ticks + 1
    /\ LET t == _update_snake_length(points, lengths, current_length,
                                     allowed_length, previous_head, head_pos)
           b == update_branch(t.points, head_pos, food_location,
                              food_width, food_height)
       IN  /\ points' = t.points
           /\ lengths' = t.lengths
           /\ current_length' = t.current_length
           /\ allowed_length' = IF b = "food" THEN grow(allowed_length)
                                              ELSE allowed_length
           /\ score' = IF b = "food" THEN score + 1 ELSE score
           /\ food_location' \in respawn(b, food_location)
           /\ game_over' = (b = "over")
           /\ previous_head' = IF b = "over" THEN previous_head ELSE head_pos
           /\ last' = Call("update", head_pos, b = "food", b = "food",
                           Len(points) + 1 - Len(t.points))
    /\ UNCHANGED <<food_width, food_height, food_img, main_pc>>

\* an update without the game_over test of line 95
update_nofreeze(head_pos) == update_playing(head_pos)

update(head_pos) ==
    IF game_over THEN update_over(head_pos) ELSE update_playing(head_pos)

\* a reset that leaves previous_head where the last game put it
reset_keeps_head ==
    /\ points' = <<>>
    /\ lengths' = <<>>
    /\ current_length' = 0
    /\ allowed_length' = INITIAL_SNAKE_LENGTH
    /\ previous_head' = previous_head
    /\ score' = 0
    /\ game_over' = FALSE
    /\ food_location' \in _generate_food_location
    /\ last' = Call("reset", <<0, 0>>, FALSE, TRUE, 0)
    /\ ticks' = 0
    /\ UNCHANGED <<food_width, food_height, food_img, main_pc>>

\* a reset that forgets the budget (line 87)
reset_keeps_budget ==
    /\ points' = <<>>
    /\ lengths' = <<>>
    /\ current_length' = 0
    /\ allowed_length' = allowed_length
    /\ previous_head' = <<0, 0>>
    /\ score' = 0
    /\ game_over' = FALSE
    /\ food_location' \in _generate_food_location
    /\ last' = Call("reset", <<0, 0>>, FALSE, TRUE, 0)
    /\ ticks' = 0
    /\ UNCHANGED <<food_width, food_height, food_img, main_pc>>

(* -------------------------------- reset -------------------------------- *)
reset ==
    /\ points' = <<>>
    /\ lengths' = <<>>
    /\ current_length' = 0
    /\ allowed_length' = INITIAL_SNAKE_LENGTH
    /\ previous_head' = <<0, 0>>
    /\ score' = 0
    /\ game_over' = FALSE
    /\ food_location' \in _generate_food_location
    /\ last' = Call("reset", <<0, 0>>, FALSE, TRUE, 0)
    /\ ticks' = 0
    /\ UNCHANGED <<food_width, food_height, food_img, main_pc>>

(* ------------------------------ __init__ ------------------------------- *)
Init ==
    /\ points = <<>>
    /\ lengths = <<>>
    /\ current_length = 0
    /\ allowed_length = INITIAL_SNAKE_LENGTH
    /\ previous_head = <<0, 0>>
    /\ score = 0
    /\ game_over = FALSE
    /\ \E img \in FoodImages : food_height = img[1] /\ food_width = img[2]
    /\ food_location \in _generate_food_location
    /\ last = [op |-> "init", head |-> <<0, 0>>, hit |-> FALSE,
               spawned |-> TRUE, evicted |-> 0, was_over |-> FALSE,
               food |-> <<0, 0>>, score |-> 0,
               allowed |-> INITIAL_SNAKE_LENGTH, prev |-> <<0, 0>>]
    /\ ticks = 0
    /\ food_img = "array"
    /\ main_pc = "loop"

\* one tick of the host loop with a hand in the frame
Tick == \E head_pos \in HeadPositions : update(head_pos)

Next == Tick \/ reset

Spec == Init /\ [][Next]_vars

(* -------------------------------- main --------------------------------- *)
\* before line 166: no game object yet, nothing read from the disk
MainInit ==
    /\ points = <<>>
    /\ lengths = <<>>
    /\ current_length = 0
    /\ allowed_length = INITIAL_SNAKE_LENGTH
    /\ previous_head = <<0, 0>>
    /\ score = 0
    /\ game_over = FALSE
    /\ food_height = 0
    /\ food_width = 0
    /\ food_location = <<0, 0>>
    /\ last = [op |-> "none", head |-> <<0, 0>>, hit |-> FALSE,
               spawned |-> FALSE, evicted |-> 0, was_over |-> FALSE,
               food |-> <<0, 0>>, score |-> 0,
               allowed |-> INITIAL_SNAKE_LENGTH, prev |-> <<0, 0>>]
    /\ ticks = 0
    /\ food_img = "unread"
    /\ main_pc = "create"

\* lines 36-40 with an image: the dimensions and the first food
load_food(img) ==
    /\ food_img' = "array"
    /\ food_height' = img[1]
    /\ food_width' = img[2]
    /\ food_location' \in _generate_food_location
    /\ last' = [last EXCEPT !.op = "init", !.spawned = TRUE]
    /\ main_pc' = "loop"
    /\ UNCHANGED <<points, lengths, current_length, allowed_length,
                   previous_head, score, game_over, ticks>>

\* a constructor that goes on without the image
raise_missing_ignored ==
    /\ food_img' = "None"
    /\ main_pc' = "loop"
    /\ last' = [last EXCEPT !.op = "init"]
    /\ UNCHANGED <<points, lengths, current_length, allowed_length,
                   previous_head, score, game_over, food_width,
                   food_height, food_location, ticks>>

\* lines 36-38 without an image: FileNotFoundError leaves main
raise_missing ==
    /\ food_img' = "None"
    /\ main_pc' = "raised"
    /\ UNCHANGED <<points, lengths, current_length, allowed_length,
                   previous_head, score, game_over, food_width,
                   food_height, food_location, last, ticks>>

\* line 166: game = SnakeGame(config); cv2.imread gives an array or None
construct ==
    /\ main_pc = "create"
    /\ \/ \E img \in FoodImages : load_food(img)
       \/ raise_missing

\* lines 169-192: one pass of the loop that calls update or reset
loop_call ==
    /\ main_pc = "loop"
    /\ (Tick \/ reset)

\* lines 172-174 and 193-194: the loop ends
quit ==
    /\ main_pc = "loop"
    /\ main_pc' = "done"
    /\ UNCHANGED <<points, lengths, current_length, allowed_length,
                   previous_head, score, game_over, food_width,
                   food_height, food_location, last, ticks, food_img>>

MainNext == construct \/ loop_call \/ quit

MainSpec == MainInit /\ [][MainNext]_vars

(* ----------------- probing _check_food_collision alone ----------------- *)
FoodInit ==
    /\ points = <<>>
    /\ lengths = <<>>
    /\ current_length = 0
    /\ allowed_length = INITIAL_SNAKE_LENGTH
    /\ previous_head = <<0, 0>>
    /\ score = 0
    /\ game_over = FALSE
    /\ food_height \in 1..MaxFoodDim
    /\ food_width \in 1..MaxFoodDim
    /\ food_location \in _generate_food_location
    /\ last = [op |-> "init", head |-> <<0, 0>>, hit |-> FALSE,
               spawned |-> TRUE, evicted |-> 0, was_over |-> FALSE,
               food |-> <<0, 0>>, score |-> 0,
               allowed |-> INITIAL_SNAKE_LENGTH, prev |-> <<0, 0>>]
    /\ ticks = 0
    /\ food_img = "array"
    /\ main_pc = "loop"

check_food(head_pos) ==
    /\ last' = Call("check_food", head_pos,
                    _check_food_collision(head_pos, food_location,
                                          food_width, food_height),
                    FALSE, 0)
    /\ UNCHANGED <<points, lengths, current_length, allowed_length,
                   previous_head, score, game_over, food_width,
                   food_height, food_location, ticks, food_img, main_pc>>

FoodNext ==
    \E ox \in -MaxOffset..MaxOffset, oy \in -MaxOffset..MaxOffset :
        check_food(<<food_location[1] + ox, food_location[2] + oy>>)

FoodSpec == FoodInit /\ [][FoodNext]_vars

(* ------------------------------- claims -------------------------------- *)
\* the last call was an update made while Playing
PlayedTick == last.op = "update" /\ ~last.was_over

\* C1: after every update made while Playing the running length is within
\* the budget in force at the end of the call.
C1_BudgetInvariant ==
    PlayedTick => current_length <= allowed_length * Scale

\* an update that had to evict two entries and kept the new head
C1_Witness ==
    /\ PlayedTick
    /\ last.evicted >= 2
    /\ points # <<>>
    /\ current_length > 0

\* C2: an update made in GameOver changes neither score, trail, budget,
\* food nor the state, and only reset leaves GameOver.
C2_TerminalFreeze ==
    [][game_over =>
         /\ last'.op = "update" =>
                UNCHANGED <<score, points, lengths, current_length,
                            allowed_length, food_location, game_over>>
         /\ ~game_over' => last'.op = "reset"]_vars

\* an update was made in GameOver
C2_Witness ==
    /\ last.op = "update"
    /\ last.was_over
    /\ game_over
    /\ points # <<>>

\* C3: an update in Playing whose head overlaps the food scores one, grows
\* the budget by the increment, respawns the food and stays Playing, also
\* when the self-intersection test is true for that head.
C3_FoodWins ==
    (PlayedTick /\ _check_food_collision(last.head, last.food,
                                         food_width, food_height))
        => /\ score = last.score + 1
           /\ allowed_length = last.allowed + LENGTH_INCREMENT
           /\ last.spawned
           /\ ~game_over

\* the head overlapped the food while the self-intersection test was true
C3_Witness ==
    /\ PlayedTick
    /\ last.hit
    /\ score = last.score + 1
    /\ _check_self_collision(points, last.head)

\* C4: across an update the budget stays or grows by exactly the
\* increment, it grows only when the head overlaps the food, and only reset
\* lowers it.
C4_MonotonicGrowth ==
    [][/\ last'.op = "update" =>
              \/ allowed_length' = allowed_length
              \/ /\ allowed_length' = allowed_length + LENGTH_INCREMENT
                 /\ ~game_over
                 /\ _check_food_collision(last'.head, food_location,
                                          food_width, food_height)
       /\ allowed_length' < allowed_length => last'.op = "reset"]_vars

\* the budget grew for the second time
C4_Witness ==
    /\ PlayedTick
    /\ last.hit
    /\ last.allowed = INITIAL_SNAKE_LENGTH + LENGTH_INCREMENT
    /\ allowed_length = last.allowed + LENGTH_INCREMENT

\* the trail without its two newest points (points[:-2])
Body == SubSeq(points, 1, Len(points) - 2)

\* pt is within one unit of the segment a-b
NearSegment(a, b, pt) ==
    LET ux == b[1] - a[1]
        uy == b[2] - a[2]
        wx == pt[1] - a[1]
        wy == pt[2] - a[2]
        zx == pt[1] - b[1]
        zy == pt[2] - b[2]
        dot == wx * ux + wy * uy
        cross == wx * uy - wy * ux
    IN  \/ wx * wx + wy * wy <= 1
        \/ zx * zx + zy * zy <= 1
        \/ /\ 0 < dot
           /\ dot < ux * ux + uy * uy
           /\ cross * cross <= ux * ux + uy * uy

\* pt is within one unit of the boundary of the closed polygon through
\* poly, on either side
NearPolygon(poly, pt) ==
    \E i \in 1..Len(poly) :
        NearSegment(poly[i], poly[(i % Len(poly)) + 1], pt)

\* C5 as stated: with at most 4 trail points (fewer than 3 besides the two
\* newest) the self-intersection test is false for every head and the
\* update does not end the game.
C5_AtMostFourNeverCollides ==
    Len(points) <= 4 =>
        /\ \A h \in HeadPositions : ~_check_self_collision(points, h)
        /\ PlayedTick => ~game_over

\* C5: with fewer than 3 trail points (none left besides the two newest)
\* the self-intersection test is false for every head and the update does
\* not end the game.
C5_FewerThanThreeNeverCollides ==
    Len(points) < 3 =>
        /\ \A h \in HeadPositions : ~_check_self_collision(points, h)
        /\ PlayedTick => ~game_over

\* the head came back onto the only other trail point and the game goes on
C5_Witness ==
    /\ PlayedTick
    /\ ~last.hit
    /\ Len(points) = 2
    /\ points[1] = points[2]
    /\ ~game_over

\* C6 as stated: an update in Playing ends the game exactly when the head
\* misses the food, at least 3 points remain besides the two newest and the
\* head is within one unit of the closed polygon through them.
C6_GameOverNeedsThreeBodyPoints ==
    PlayedTick =>
        (game_over <=>
            /\ ~_check_food_collision(last.head, last.food,
                                      food_width, food_height)
            /\ Len(Body) >= 3
            /\ NearPolygon(Body, last.head))

\* C6: an update in Playing ends the game exactly when the head misses the
\* food, at least 1 point remains besides the two newest and the head is
\* within one unit (1 included) of the closed polygon through them; no
\* other call ends the game.
C6_GameOverTransition ==
    /\ PlayedTick =>
          (game_over <=>
              /\ ~_check_food_collision(last.head, last.food,
                                        food_width, food_height)
              /\ Len(Body) >= 1
              /\ NearPolygon(Body, last.head))
    /\ game_over => last.op = "update"

\* the game ended on a head inside a polygon of three body points, exactly
\* one unit away from its boundary
C6_Witness ==
    /\ PlayedTick
    /\ game_over
    /\ Len(Body) >= 3
    /\ ~pointPolygonTest(Body, last.head).neg
    /\ pointPolygonTest(Body, last.head).num
           = pointPolygonTest(Body, last.head).denom

\* C7 as stated: the food test is true exactly when 2|x-fx| < fw and
\* 2|y-fy| < fh (exact halves).
C7_ExactHalves ==
    last.op = "check_food" =>
        (last.hit <=>
            /\ 2 * abs(last.head[1] - food_location[1]) < food_width
            /\ 2 * abs(last.head[2] - food_location[2]) < food_height)

\* C7: the food test is true exactly when |x-fx| and |y-fy| are below the
\* halves rounded down, i.e. 2|x-fx| < fw - (fw mod 2) and
\* 2|y-fy| < fh - (fh mod 2).
C7_FlooredHalves ==
    last.op = "check_food" =>
        (last.hit <=>
            /\ 2 * abs(last.head[1] - food_location[1])
                   < food_width - (food_width % 2)
            /\ 2 * abs(last.head[2] - food_location[2])
                   < food_height - (food_height % 2))

\* an odd width, a head at the rounded-down half: no overlap
C7_Witness ==
    /\ last.op = "check_food"
    /\ food_width % 2 = 1
    /\ food_width >= 3
    /\ 2 * abs(last.head[1] - food_location[1]) = food_width - 1
    /\ 2 * abs(last.head[2] - food_location[2]) < food_height - 1
    /\ ~last.hit

\* C8: after reset, from any state, score is 0, the budget is the initial
\* one, the trail is empty, previous_head is the seed and the state is
\* Playing.
C8_ResetDeterminism ==
    last.op = "reset" =>
        /\ score = 0
        /\ allowed_length = INITIAL_SNAKE_LENGTH
        /\ points = <<>>
        /\ lengths = <<>>
        /\ current_length = 0
        /\ previous_head = <<0, 0>>
        /\ ~game_over

\* reset was called in GameOver, after food had been eaten
C8_Witness ==
    /\ last.op = "reset"
    /\ last.was_over
    /\ last.score > 0
    /\ last.prev # <<0, 0>>
    /\ score = 0

\* C9: the food location always lies in
\* [padding, width - padding] x [padding, height - padding].
C9_FoodBounds ==
    /\ padding <= food_location[1]
    /\ food_location[1] <= WINDOW_WIDTH - padding
    /\ padding <= food_location[2]
    /\ food_location[2] <= WINDOW_HEIGHT - padding

\* a food overlap respawned the food on the far limit
C9_Witness ==
    /\ PlayedTick
    /\ last.hit
    /\ last.food[1] = padding
    /\ food_location[1] = WINDOW_WIDTH - padding

\* C10 as stated: a non-empty trail holds one distance less than points.
C10_OneDistanceLess ==
    points # <<>> => Len(lengths) = Len(points) - 1

\* C10: the trail always holds exactly one distance per point.
C10_OneDistancePerPoint ==
    Len(lengths) = Len(points)

\* an update evicted from a trail that keeps several points
C10_Witness ==
    /\ PlayedTick
    /\ last.evicted > 0
    /\ Len(points) >= 2
    /\ Len(lengths) = Len(points)

RECURSIVE SumOf(_)
\* sum(lengths): the float sum of the stored distances, oldest first
SumOf(lens) ==
    IF lens = <<>> THEN 0
    ELSE fadd(SumOf(SubSeq(lens, 1, Len(lens) - 1)), lens[Len(lens)])

\* C11 as stated: current_length equals the sum of the stored distances,
\* and is 0 when none are stored.
C11_RunningSum ==
    current_length = SumOf(lengths)

\* C12: when the food image cannot be loaded the constructor raises, main
\* is left without a game and without entering the loop, and neither
\* update nor reset is ever called.
C12_ConfigurationError ==
    food_img = "None" =>
        /\ main_pc = "raised"
        /\ last.op = "none"
        /\ ticks = 0
        /\ food_width = 0
        /\ food_height = 0

\* construction failed on a missing image
C12_Witness ==
    /\ food_img = "None"
    /\ main_pc = "raised"

RECURSIVE Total(_)
\* the exact sum of the distances of lens
Total(lens) == IF lens = <<>> THEN 0 ELSE Head(lens) + Total(Tail(lens))

\* s without its first k entries
DropFirst(s, k) == SubSeq(s, k + 1, Len(s))

\* C13 as stated: an update in Playing removes the same number k of entries
\* from the front of (points + new point) and of (distances + new distance),
\* and k is the smallest number that leaves a sum within the budget.
C13_MinimalEviction ==
    [][(~game_over /\ last'.op = "update") =>
          LET all_points  == Append(points, last'.head)
              all_lengths ==
                  Append(lengths, hypot(last'.head[1] - previous_head[1],
                                        last'.head[2] - previous_head[2]))
              k == Len(all_points) - Len(points')
          IN  /\ k \in 0..Len(all_points)
              /\ points' = DropFirst(all_points, k)
              /\ lengths' = DropFirst(all_lengths, k)
              /\ Total(lengths') <= allowed_length * Scale
              /\ \A j \in 0..(k - 1) :
                     Total(DropFirst(all_lengths, j)) > allowed_length * Scale
      ]_vars

\* C14 as stated: the first update after construction or reset leaves the
\* trail exactly [p], whatever the first point p.
C14_FirstPointKept ==
    (PlayedTick /\ ticks = 1) => points = <<last.head>>

\* C15 as stated: an update in Playing whose head overlaps the food moves
\* the food to a different location; any other update leaves it in place.
C15_RespawnMovesFood ==
    [][last'.op = "update" =>
          IF ~game_over /\ _check_food_collision(last'.head, food_location,
                                                 food_width, food_height)
             THEN food_location' # food_location
             ELSE food_location' = food_location]_vars

\* C15: an update in Playing whose head overlaps the food draws a new food
\* location from the spawner, which may be the old one; any other update
\* leaves the food in place.
C15_RespawnDrawsFood ==
    [][last'.op = "update" =>
          IF ~game_over /\ _check_food_collision(last'.head, food_location,
                                                 food_width, food_height)
             THEN /\ last'.spawned
                  /\ food_location' \in _generate_food_location
             ELSE /\ ~last'.spawned
                  /\ food_location' = food_location]_vars

\* the food was eaten and came back at the same location
C15_Witness ==
    /\ PlayedTick
    /\ last.hit
    /\ last.spawned
    /\ food_location = last.food

\* the distance math.hypot gives from a to b
Distance(a, b) == hypot(b[1] - a[1], b[2] - a[2])

\* C16 as stated: after an update(p) in Playing the trail is empty exactly
\* when the distance from the previous head to p exceeds the budget in
\* force before the call; otherwise its last point is p.
C16_HeadRetention ==
    PlayedTick =>
        IF Distance(last.prev, last.head) > last.allowed * Scale
           THEN points = <<>>
           ELSE points # <<>> /\ points[Len(points)] = last.head

\* C17: allowed_length is always the initial length plus the increment
\* times the score, and the score is never negative.
C17_ScoreBudgetCoupling ==
    /\ allowed_length = INITIAL_SNAKE_LENGTH + LENGTH_INCREMENT * score
    /\ score >= 0

\* food has been eaten twice
C17_Witness ==
    /\ PlayedTick
    /\ last.hit
    /\ score = 2
    /\ allowed_length = INITIAL_SNAKE_LENGTH + 2 * LENGTH_INCREMENT

RECURSIVE PolylineLength(_)
\* the exact length of the polyline through pts
PolylineLength(pts) ==
    IF Len(pts) < 2 THEN 0
    ELSE Distance(pts[1], pts[2]) + PolylineLength(Tail(pts))

\* C18 as stated: every stored distance but the first is the distance
\* between its point and the one before, the polyline through the points
\* is current_length - lengths[0] long and, after an update, within the
\* budget.
C18_SegmentBookkeeping ==
    /\ Len(lengths) = Len(points)
    /\ \A i \in 2..Len(points) :
           lengths[i] = Distance(points[i - 1], points[i])
    /\ points # <<>> =>
           PolylineLength(points) = current_length - lengths[1]
    /\ PlayedTick => PolylineLength(points) <= allowed_length * Scale

====
